---- MODULE Spec2Model ----
(***************************************************************************)
(* Authentication / session / authorization core of the user management   *)
(* system: AuthService (register, login, refresh_token, logout,           *)
(* verify_email), the get_current_user dependency, the token codec of     *)
(* app/core/security.py, the Session model, the admin operations of       *)
(* UserService and the PermissionChecker / RoleChecker dependencies.      *)
(*                                                                         *)
(* Time is a discrete clock `now`.  One tick stands for one access-token  *)
(* lifetime; the other lifetimes are scaled to a few ticks so that every  *)
(* expiry happens inside the explored horizon.                            *)
(***************************************************************************)
EXTENDS Integers, Sequences, FiniteSets, TLC

\* ------------------------------------------------------------------ bounds
NumUsers == 2
MaxSessions == 2
MaxTime == 3
NumRequests == 2
MaxRows == 3
MaxTTL == 2
MaxRaceSessions == 1

\* Lifetimes in ticks (settings.ACCESS_TOKEN_EXPIRE_MINUTES, settings.
\* REFRESH_TOKEN_EXPIRE_DAYS, and the two timedelta's of
\* generate_verification_token), scaled: access <= reset <= verify <= refresh.
AccessTTL == 1
RefreshTTL == 2
VerifyTTL == 2
ResetTTL == 1

Users == 1..NumUsers
SessionIds == 1..MaxSessions
Times == 0..MaxTime

\* Absent values (Python None).
NoUser == 0
NoSid == 0
NoTime == -1
\* A session_id claim that is a string but no UUID.
MalformedSid == -1

UserStatus == {"active", "inactive", "suspended", "locked", "pending_verification"}

\* ------------------------------------------------------------------ tokens
\* A token is the claim set that was signed, together with whether the
\* signature verifies under settings.SECRET_KEY.
NoClaims == [type |-> "none", sub |-> NoUser, sid |-> NoSid, purpose |-> "none",
             iat |-> NoTime, exp |-> NoTime]

\* expires_delta = 0 stands for None and for timedelta(0), both of which the
\* test "if expires_delta" sends to the configured default.
create_access_token(data, expires_delta, t) ==
    [signed |-> TRUE,
     claims |-> [data EXCEPT
                    !.exp = IF expires_delta # 0 THEN t + expires_delta ELSE t + AccessTTL,
                    !.iat = t,
                    !.type = "access"]]

create_refresh_token(data, expires_delta, t) ==
    [signed |-> TRUE,
     claims |-> [data EXCEPT
                    !.exp = IF expires_delta # 0 THEN t + expires_delta ELSE t + RefreshTTL,
                    !.iat = t,
                    !.type = "refresh"]]

\* jwt.decode: the signature must verify and the token must not be past its
\* exp claim; every failure gives None.
None == [valid |-> FALSE, claims |-> NoClaims]

\* Mutant of decode_token: the exp claim is not verified.
decode_token_without_expiry(token, t) ==
    IF token.signed
    THEN [valid |-> TRUE, claims |-> token.claims]
    ELSE None

decode_token(token, t) ==
    IF token.signed /\ ~(token.claims.exp < t)
    THEN [valid |-> TRUE, claims |-> token.claims]
    ELSE None

\* SHA-256 of the token string: one-way, taken collision-free.
hash_token(token) == <<"sha256", token>>

generate_verification_token(user_id, purpose, t) ==
    create_access_token(
        [NoClaims EXCEPT !.sub = user_id, !.purpose = purpose],
        IF purpose = "email_verification" THEN VerifyTTL ELSE ResetTTL,
        t)

verify_verification_token(token, expected_purpose, t) ==
    LET payload == decode_token(token, t) IN
    IF ~payload.valid THEN NoUser
    ELSE IF payload.claims.purpose # expected_purpose THEN NoUser
    ELSE payload.claims.sub

\* ------------------------------------------------------------------- state
VARIABLES
    now,        \* the clock (datetime.now(timezone.utc))
    users,      \* users table: user id -> row
    sessions,   \* sessions table: session id -> row (partial)
    issuedSids, \* number of session ids uuid4 has handed out
    user_roles, \* user_roles table: set of assignment rows
    roles,      \* roles table: role -> row
    role_permissions, \* role_permissions table: set of <<role, permission>>
    user_rows,  \* users table as the register requests see it: rows with
                \* their e-mail and username, committed or not
    requests,   \* the register requests in flight: request -> its position
    codec,      \* the token a caller of the codec holds and what decoding gave
    calls       \* the session requests in flight: request -> its transaction

vars == <<now, users, sessions, issuedSids, user_roles, roles, role_permissions,
          user_rows, requests, codec, calls>>

\* The tokens a client can present at time t: everything the codec signs for
\* the program's callers, issued at or before t (session tokens naming a
\* session id that uuid4 has handed out, and single-use tokens), access tokens
\* whose session_id is no UUID, and one string that does not verify.
SessionClaims(u, s) == [NoClaims EXCEPT !.sub = u, !.sid = s]

BadToken == [signed |-> FALSE, claims |-> NoClaims]

AccessTokens(t) ==
    {create_access_token(SessionClaims(u, s), AccessTTL, i) :
        u \in Users, s \in (1..issuedSids) \cup {MalformedSid}, i \in 0..t}

RefreshTokens(t) ==
    {create_refresh_token(SessionClaims(u, s), RefreshTTL, i) :
        u \in Users, s \in 1..issuedSids, i \in 0..t}

SingleUseTokens(t) ==
    {generate_verification_token(u, p, i) :
        u \in Users, p \in {"email_verification", "password_reset"}, i \in 0..t}

Presentable(t) ==
    AccessTokens(t) \cup RefreshTokens(t) \cup SingleUseTokens(t) \cup {BadToken}

NoRow == [exists |-> FALSE, status |-> "pending_verification", deleted |-> FALSE,
          email_verified |-> FALSE, last_login_at |-> NoTime]

\* A request's result: the failure raised (err = "none" on success), the
\* tables as the request's transaction leaves them (get_db commits on success
\* and rolls back on any exception), and what is returned to the caller.
Fail(e, d) ==
    [err |-> e, detail |-> d, users |-> users, sessions |-> sessions,
     issuedSids |-> issuedSids, access |-> BadToken, refresh |-> BadToken,
     user |-> NoUser, sid |-> NoSid, count |-> 0]

Done(us, ss, n, acc, ref, u, s, c) ==
    [err |-> "none", detail |-> "none", users |-> us, sessions |-> ss,
     issuedSids |-> n, access |-> acc, refresh |-> ref,
     user |-> u, sid |-> s, count |-> c]

\* ----------------------------------------------------------- Session model
is_expired(row, t) == t > row.expires_at

is_active(row, t) == ~row.revoked /\ ~is_expired(row, t)

revoke(row, revoked_by_user_id, t) ==
    [row EXCEPT !.revoked = TRUE, !.revoked_at = t, !.revoked_by = revoked_by_user_id]

update_activity(row, t) == [row EXCEPT !.last_activity = t]

\* select(Session).where(Session.id == sid).where(Session.revoked == False)
UnrevokedSession(sid) ==
    sid \in DOMAIN sessions /\ ~sessions[sid].revoked

\* select(User).where(User.id == u).where(User.deleted_at.is_(None))
LiveUser(u) == u \in Users /\ users[u].exists /\ ~users[u].deleted

\* ------------------------------------------------------------- AuthService
\* An e-mail address is identified with the user id it belongs to; NoUser is
\* an address no row has.
register(e) ==
    IF e \in Users /\ users[e].exists
    THEN Fail("ConflictError", "Email already registered")
    ELSE Done([users EXCEPT ![e] = [NoRow EXCEPT !.exists = TRUE]],
              sessions, issuedSids, BadToken, BadToken, e, NoSid, 0)

\* Mutant of _create_session: the session row lives as long as the access
\* token, not the refresh token.
_create_session_access_lifetime(user, t) ==
    LET session_id == issuedSids + 1
        access_token == create_access_token(SessionClaims(user, session_id), AccessTTL, t)
        refresh_token == create_refresh_token(SessionClaims(user, session_id), RefreshTTL, t)
        session == [user_id |-> user,
                    token_hash |-> hash_token(access_token),
                    refresh_token_hash |-> hash_token(refresh_token),
                    created_at |-> t,
                    last_activity |-> t,
                    expires_at |-> t + AccessTTL,
                    revoked |-> FALSE,
                    revoked_at |-> NoTime,
                    revoked_by |-> NoUser]
    IN  [sid |-> session_id, session |-> session,
         access |-> access_token, refresh |-> refresh_token]

\* Mutant of _create_session: the tokens carry no session_id claim.
_create_session_without_session_claim(user, t) ==
    LET session_id == issuedSids + 1
        access_token == create_access_token(SessionClaims(user, NoSid), AccessTTL, t)
        refresh_token == create_refresh_token(SessionClaims(user, NoSid), RefreshTTL, t)
        session == [user_id |-> user,
                    token_hash |-> hash_token(access_token),
                    refresh_token_hash |-> hash_token(refresh_token),
                    created_at |-> t,
                    last_activity |-> t,
                    expires_at |-> t + RefreshTTL,
                    revoked |-> FALSE,
                    revoked_at |-> NoTime,
                    revoked_by |-> NoUser]
    IN  [sid |-> session_id, session |-> session,
         access |-> access_token, refresh |-> refresh_token]

_create_session(user, t) ==
    LET session_id == issuedSids + 1
        access_token == create_access_token(SessionClaims(user, session_id), AccessTTL, t)
        refresh_token == create_refresh_token(SessionClaims(user, session_id), RefreshTTL, t)
        session == [user_id |-> user,
                    token_hash |-> hash_token(access_token),
                    refresh_token_hash |-> hash_token(refresh_token),
                    created_at |-> t,
                    last_activity |-> t,
                    expires_at |-> t + RefreshTTL,
                    revoked |-> FALSE,
                    revoked_at |-> NoTime,
                    revoked_by |-> NoUser]
    IN  [sid |-> session_id, session |-> session,
         access |-> access_token, refresh |-> refresh_token]

\* Mutant of login: the account status is looked at before the password.
login_status_first(e, password_ok, t) ==
    IF ~LiveUser(e) THEN Fail("AuthenticationError", "Invalid email or password")
    ELSE IF users[e].status = "locked" THEN Fail("AuthenticationError", "Account is locked")
    ELSE IF users[e].status = "suspended"
         THEN Fail("AuthenticationError", "Account is suspended")
    ELSE IF users[e].status = "inactive"
         THEN Fail("UserInactiveError", "User account is inactive")
    ELSE IF ~password_ok THEN Fail("AuthenticationError", "Invalid email or password")
    ELSE LET c == _create_session(e, t) IN
         Done([users EXCEPT ![e].last_login_at = t],
              [s \in DOMAIN sessions \cup {c.sid} |->
                  IF s = c.sid THEN c.session ELSE sessions[s]],
              c.sid, c.access, c.refresh, e, c.sid, 0)

\* Mutant of login: an address without a live account is answered with its
\* own error.
login_naming_unknown_email(e, password_ok, t) ==
    IF ~LiveUser(e) THEN Fail("NotFoundError", "User not found")
    ELSE IF ~password_ok THEN Fail("AuthenticationError", "Invalid email or password")
    ELSE IF users[e].status = "locked" THEN Fail("AuthenticationError", "Account is locked")
    ELSE IF users[e].status = "suspended"
         THEN Fail("AuthenticationError", "Account is suspended")
    ELSE IF users[e].status = "inactive"
         THEN Fail("UserInactiveError", "User account is inactive")
    ELSE LET c == _create_session(e, t) IN
         Done([users EXCEPT ![e].last_login_at = t],
              [s \in DOMAIN sessions \cup {c.sid} |->
                  IF s = c.sid THEN c.session ELSE sessions[s]],
              c.sid, c.access, c.refresh, e, c.sid, 0)

login(e, password_ok, t) ==
    IF ~LiveUser(e) THEN Fail("AuthenticationError", "Invalid email or password")
    ELSE IF ~password_ok THEN Fail("AuthenticationError", "Invalid email or password")
    ELSE IF users[e].status = "locked" THEN Fail("AuthenticationError", "Account is locked")
    ELSE IF users[e].status = "suspended"
         THEN Fail("AuthenticationError", "Account is suspended")
    ELSE IF users[e].status = "inactive"
         THEN Fail("UserInactiveError", "User account is inactive")
    ELSE LET c == _create_session(e, t) IN
         Done([users EXCEPT ![e].last_login_at = t],
              [s \in DOMAIN sessions \cup {c.sid} |->
                  IF s = c.sid THEN c.session ELSE sessions[s]],
              c.sid, c.access, c.refresh, e, c.sid, 0)

\* Mutant of refresh_token: the comparison of the presented token's hash with
\* the stored refresh fingerprint is missing.
refresh_token_without_fingerprint(token, t) ==
    LET payload == decode_token(token, t)
        session_id == payload.claims.sid
    IN
    IF ~payload.valid THEN Fail("AuthenticationError", "Invalid refresh token")
    ELSE IF payload.claims.type # "refresh"
         THEN Fail("AuthenticationError", "Invalid token type")
    ELSE IF session_id = NoSid THEN Fail("AuthenticationError", "Invalid token")
    ELSE IF session_id = MalformedSid THEN Fail("ValueError", "badly formed UUID")
    ELSE IF ~UnrevokedSession(session_id)
         THEN Fail("AuthenticationError", "Session not found or revoked")
    ELSE IF ~is_active(sessions[session_id], t)
         THEN Fail("AuthenticationError", "Session expired")
    ELSE LET user == sessions[session_id].user_id IN
         IF ~LiveUser(user) \/ users[user].status # "active"
         THEN Fail("AuthenticationError", "User not found or inactive")
         ELSE LET access_token ==
                      create_access_token(SessionClaims(user, session_id), AccessTTL, t)
              IN Done(users,
                      [sessions EXCEPT ![session_id] =
                          update_activity(
                              [@ EXCEPT !.token_hash = hash_token(access_token)], t)],
                      issuedSids, access_token, token, user, session_id, 0)

\* Mutant of refresh_token: the session is looked up by id alone and its
\* is_active property is not consulted.
refresh_token_ignoring_session_state(token, t) ==
    LET payload == decode_token(token, t)
        session_id == payload.claims.sid
    IN
    IF ~payload.valid THEN Fail("AuthenticationError", "Invalid refresh token")
    ELSE IF payload.claims.type # "refresh"
         THEN Fail("AuthenticationError", "Invalid token type")
    ELSE IF session_id = NoSid THEN Fail("AuthenticationError", "Invalid token")
    ELSE IF session_id = MalformedSid THEN Fail("ValueError", "badly formed UUID")
    ELSE IF session_id \notin DOMAIN sessions
         THEN Fail("AuthenticationError", "Session not found or revoked")
    ELSE IF sessions[session_id].refresh_token_hash # hash_token(token)
         THEN Fail("AuthenticationError", "Invalid refresh token")
    ELSE LET user == sessions[session_id].user_id IN
         IF ~LiveUser(user) \/ users[user].status # "active"
         THEN Fail("AuthenticationError", "User not found or inactive")
         ELSE LET access_token ==
                      create_access_token(SessionClaims(user, session_id), AccessTTL, t)
              IN Done(users,
                      [sessions EXCEPT ![session_id] =
                          update_activity(
                              [@ EXCEPT !.token_hash = hash_token(access_token)], t)],
                      issuedSids, access_token, token, user, session_id, 0)

\* Mutant of refresh_token: the refresh token is rotated, a new one is issued
\* and its hash replaces the stored refresh fingerprint.
refresh_token_rotating(token, t) ==
    LET payload == decode_token(token, t)
        session_id == payload.claims.sid
    IN
    IF ~payload.valid THEN Fail("AuthenticationError", "Invalid refresh token")
    ELSE IF payload.claims.type # "refresh"
         THEN Fail("AuthenticationError", "Invalid token type")
    ELSE IF session_id = NoSid THEN Fail("AuthenticationError", "Invalid token")
    ELSE IF session_id = MalformedSid THEN Fail("ValueError", "badly formed UUID")
    ELSE IF ~UnrevokedSession(session_id)
         THEN Fail("AuthenticationError", "Session not found or revoked")
    ELSE IF ~is_active(sessions[session_id], t)
         THEN Fail("AuthenticationError", "Session expired")
    ELSE IF sessions[session_id].refresh_token_hash # hash_token(token)
         THEN Fail("AuthenticationError", "Invalid refresh token")
    ELSE LET user == sessions[session_id].user_id IN
         IF ~LiveUser(user) \/ users[user].status # "active"
         THEN Fail("AuthenticationError", "User not found or inactive")
         ELSE LET access_token ==
                      create_access_token(SessionClaims(user, session_id), AccessTTL, t)
                  new_refresh ==
                      create_refresh_token(SessionClaims(user, session_id), RefreshTTL, t)
              IN Done(users,
                      [sessions EXCEPT ![session_id] =
                          update_activity(
                              [@ EXCEPT !.token_hash = hash_token(access_token),
                                        !.refresh_token_hash = hash_token(new_refresh)], t)],
                      issuedSids, access_token, new_refresh, user, session_id, 0)

\* Mutant of refresh_token: the session's owner is not reloaded, so neither
\* its deleted_at nor its status is looked at.
refresh_token_without_account_check(token, t) ==
    LET payload == decode_token(token, t)
        session_id == payload.claims.sid
    IN
    IF ~payload.valid THEN Fail("AuthenticationError", "Invalid refresh token")
    ELSE IF payload.claims.type # "refresh"
         THEN Fail("AuthenticationError", "Invalid token type")
    ELSE IF session_id = NoSid THEN Fail("AuthenticationError", "Invalid token")
    ELSE IF session_id = MalformedSid THEN Fail("ValueError", "badly formed UUID")
    ELSE IF ~UnrevokedSession(session_id)
         THEN Fail("AuthenticationError", "Session not found or revoked")
    ELSE IF ~is_active(sessions[session_id], t)
         THEN Fail("AuthenticationError", "Session expired")
    ELSE IF sessions[session_id].refresh_token_hash # hash_token(token)
         THEN Fail("AuthenticationError", "Invalid refresh token")
    ELSE LET user == sessions[session_id].user_id
             access_token ==
                 create_access_token(SessionClaims(user, session_id), AccessTTL, t)
         IN Done(users,
                 [sessions EXCEPT ![session_id] =
                     update_activity(
                         [@ EXCEPT !.token_hash = hash_token(access_token)], t)],
                 issuedSids, access_token, token, user, session_id, 0)

refresh_token(token, t) ==
    LET payload == decode_token(token, t)
        session_id == payload.claims.sid
    IN
    IF ~payload.valid THEN Fail("AuthenticationError", "Invalid refresh token")
    ELSE IF payload.claims.type # "refresh"
         THEN Fail("AuthenticationError", "Invalid token type")
    ELSE IF session_id = NoSid THEN Fail("AuthenticationError", "Invalid token")
    ELSE IF session_id = MalformedSid THEN Fail("ValueError", "badly formed UUID")
    ELSE IF ~UnrevokedSession(session_id)
         THEN Fail("AuthenticationError", "Session not found or revoked")
    ELSE IF ~is_active(sessions[session_id], t)
         THEN Fail("AuthenticationError", "Session expired")
    ELSE IF sessions[session_id].refresh_token_hash # hash_token(token)
         THEN Fail("AuthenticationError", "Invalid refresh token")
    ELSE LET user == sessions[session_id].user_id IN
         IF ~LiveUser(user) \/ users[user].status # "active"
         THEN Fail("AuthenticationError", "User not found or inactive")
         ELSE LET access_token ==
                      create_access_token(SessionClaims(user, session_id), AccessTTL, t)
              IN Done(users,
                      [sessions EXCEPT ![session_id] =
                          update_activity(
                              [@ EXCEPT !.token_hash = hash_token(access_token)], t)],
                      issuedSids, access_token, token, user, session_id, 0)

\* Mutant of logout: the session_id branch does not filter on the owner.
logout_any_owner(user, session_id, all_devices, t) ==
    IF all_devices
    THEN LET found == {s \in DOMAIN sessions :
                          sessions[s].user_id = user /\ ~sessions[s].revoked}
         IN Done(users,
                 [s \in DOMAIN sessions |->
                     IF s \in found THEN revoke(sessions[s], user, t) ELSE sessions[s]],
                 issuedSids, BadToken, BadToken, user, NoSid, Cardinality(found))
    ELSE IF session_id # NoSid /\ UnrevokedSession(session_id)
    THEN Done(users, [sessions EXCEPT ![session_id] = revoke(@, user, t)],
              issuedSids, BadToken, BadToken, user, session_id, 1)
    ELSE Done(users, sessions, issuedSids, BadToken, BadToken, user, NoSid, 0)

\* Mutant of logout: the all_devices branch does not filter on the owner.
logout_everyone(user, session_id, all_devices, t) ==
    IF all_devices
    THEN LET found == {s \in DOMAIN sessions : ~sessions[s].revoked}
         IN Done(users,
                 [s \in DOMAIN sessions |->
                     IF s \in found THEN revoke(sessions[s], user, t) ELSE sessions[s]],
                 issuedSids, BadToken, BadToken, user, NoSid, Cardinality(found))
    ELSE IF session_id # NoSid
            /\ UnrevokedSession(session_id)
            /\ sessions[session_id].user_id = user
    THEN Done(users, [sessions EXCEPT ![session_id] = revoke(@, user, t)],
              issuedSids, BadToken, BadToken, user, session_id, 1)
    ELSE Done(users, sessions, issuedSids, BadToken, BadToken, user, NoSid, 0)

\* Mutant of logout: neither branch filters on revoked == False.
logout_revoking_again(user, session_id, all_devices, t) ==
    IF all_devices
    THEN LET found == {s \in DOMAIN sessions : sessions[s].user_id = user}
         IN Done(users,
                 [s \in DOMAIN sessions |->
                     IF s \in found THEN revoke(sessions[s], user, t) ELSE sessions[s]],
                 issuedSids, BadToken, BadToken, user, NoSid, Cardinality(found))
    ELSE IF session_id # NoSid
            /\ session_id \in DOMAIN sessions
            /\ sessions[session_id].user_id = user
    THEN Done(users, [sessions EXCEPT ![session_id] = revoke(@, user, t)],
              issuedSids, BadToken, BadToken, user, session_id, 1)
    ELSE Done(users, sessions, issuedSids, BadToken, BadToken, user, NoSid, 0)

\* AuthService.logout; session_id = NoSid stands for None.
logout(user, session_id, all_devices, t) ==
    IF all_devices
    THEN LET found == {s \in DOMAIN sessions :
                          sessions[s].user_id = user /\ ~sessions[s].revoked}
         IN Done(users,
                 [s \in DOMAIN sessions |->
                     IF s \in found THEN revoke(sessions[s], user, t) ELSE sessions[s]],
                 issuedSids, BadToken, BadToken, user, NoSid, Cardinality(found))
    ELSE IF session_id # NoSid
            /\ UnrevokedSession(session_id)
            /\ sessions[session_id].user_id = user
    THEN Done(users, [sessions EXCEPT ![session_id] = revoke(@, user, t)],
              issuedSids, BadToken, BadToken, user, session_id, 1)
    ELSE Done(users, sessions, issuedSids, BadToken, BadToken, user, NoSid, 0)

\* Mutant of verify_email: the status is set to active only for an account
\* that is pending verification.
verify_email_pending_only(token, t) ==
    LET user_id == verify_verification_token(token, "email_verification", t) IN
    IF user_id = NoUser
    THEN Fail("BadRequestError", "Invalid or expired verification token")
    ELSE IF ~(user_id \in Users /\ users[user_id].exists)
    THEN Fail("NotFoundError", "User not found")
    ELSE Done([users EXCEPT ![user_id].email_verified = TRUE,
                            ![user_id].status =
                                IF @ = "pending_verification" THEN "active" ELSE @],
              sessions, issuedSids, BadToken, BadToken, user_id, NoSid, 0)

\* Mutant of verify_email: a token is refused once the address it verifies
\* has been verified.
verify_email_once(token, t) ==
    LET user_id == verify_verification_token(token, "email_verification", t) IN
    IF user_id = NoUser
    THEN Fail("BadRequestError", "Invalid or expired verification token")
    ELSE IF ~(user_id \in Users /\ users[user_id].exists)
    THEN Fail("NotFoundError", "User not found")
    ELSE IF users[user_id].email_verified
    THEN Fail("BadRequestError", "Email already verified")
    ELSE Done([users EXCEPT ![user_id].email_verified = TRUE,
                            ![user_id].status = "active"],
              sessions, issuedSids, BadToken, BadToken, user_id, NoSid, 0)

verify_email(token, t) ==
    LET user_id == verify_verification_token(token, "email_verification", t) IN
    IF user_id = NoUser
    THEN Fail("BadRequestError", "Invalid or expired verification token")
    ELSE IF ~(user_id \in Users /\ users[user_id].exists)
    THEN Fail("NotFoundError", "User not found")
    ELSE Done([users EXCEPT ![user_id].email_verified = TRUE,
                            ![user_id].status = "active"],
              sessions, issuedSids, BadToken, BadToken, user_id, NoSid, 0)

\* ------------------------------------------------------- get_current_user
\* Mutant of get_current_user: the session check is missing, as it is in
\* get_current_user_optional.
get_current_user_without_session(token, t) ==
    LET payload == decode_token(token, t)
        user_id == payload.claims.sub
    IN
    IF ~payload.valid THEN Fail("TokenInvalidError", "Invalid token")
    ELSE IF payload.claims.type # "access" THEN Fail("TokenInvalidError", "Invalid token")
    ELSE IF user_id = NoUser THEN Fail("TokenInvalidError", "Invalid token")
    ELSE IF ~LiveUser(user_id) THEN Fail("AuthenticationError", "User not found")
    ELSE IF users[user_id].status = "locked"
         THEN Fail("AuthenticationError", "User account is locked")
    ELSE IF users[user_id].status = "suspended"
         THEN Fail("AuthenticationError", "User account is suspended")
    ELSE IF users[user_id].status # "active"
         THEN Fail("UserInactiveError", "User account is inactive")
    ELSE Done(users, sessions, issuedSids, BadToken, BadToken, user_id,
              payload.claims.sid, 0)

\* Mutant of get_current_user: the token must be the one whose hash the
\* session row stores.
get_current_user_matching_fingerprint(token, t) ==
    LET payload == decode_token(token, t)
        user_id == payload.claims.sub
        session_id == payload.claims.sid
    IN
    IF ~payload.valid THEN Fail("TokenInvalidError", "Invalid token")
    ELSE IF payload.claims.type # "access" THEN Fail("TokenInvalidError", "Invalid token")
    ELSE IF user_id = NoUser THEN Fail("TokenInvalidError", "Invalid token")
    ELSE IF session_id # NoSid /\ session_id # MalformedSid
            /\ (~UnrevokedSession(session_id) \/ ~is_active(sessions[session_id], t))
         THEN Fail("SessionRevokedError", "Session has been revoked")
    ELSE IF session_id # NoSid /\ session_id # MalformedSid
            /\ sessions[session_id].token_hash # hash_token(token)
         THEN Fail("TokenInvalidError", "Invalid token")
    ELSE IF ~LiveUser(user_id) THEN Fail("AuthenticationError", "User not found")
    ELSE IF users[user_id].status = "locked"
         THEN Fail("AuthenticationError", "User account is locked")
    ELSE IF users[user_id].status = "suspended"
         THEN Fail("AuthenticationError", "User account is suspended")
    ELSE IF users[user_id].status # "active"
         THEN Fail("UserInactiveError", "User account is inactive")
    ELSE Done(users, sessions, issuedSids, BadToken, BadToken, user_id, session_id, 0)

get_current_user(token, t) ==
    LET payload == decode_token(token, t)
        user_id == payload.claims.sub
        session_id == payload.claims.sid
    IN
    IF ~payload.valid THEN Fail("TokenInvalidError", "Invalid token")
    ELSE IF payload.claims.type # "access" THEN Fail("TokenInvalidError", "Invalid token")
    ELSE IF user_id = NoUser THEN Fail("TokenInvalidError", "Invalid token")
    ELSE IF session_id # NoSid /\ session_id # MalformedSid
            /\ (~UnrevokedSession(session_id) \/ ~is_active(sessions[session_id], t))
         THEN Fail("SessionRevokedError", "Session has been revoked")
    ELSE IF ~LiveUser(user_id) THEN Fail("AuthenticationError", "User not found")
    ELSE IF users[user_id].status = "locked"
         THEN Fail("AuthenticationError", "User account is locked")
    ELSE IF users[user_id].status = "suspended"
         THEN Fail("AuthenticationError", "User account is suspended")
    ELSE IF users[user_id].status # "active"
         THEN Fail("UserInactiveError", "User account is inactive")
    ELSE Done(users, sessions, issuedSids, BadToken, BadToken, user_id, session_id, 0)

\* POST /auth/logout: the caller is resolved by get_current_user, then
\* AuthService.logout runs with the body's session_id and all_devices.
logout_endpoint(token, session_id, all_devices, t) ==
    LET current_user == get_current_user(token, t) IN
    IF current_user.err # "none" THEN current_user
    ELSE logout(current_user.user, session_id, all_devices, t)


\* ------------------------------------------------------------- UserService
get_by_id(user_id, include_deleted) ==
    user_id \in Users /\ users[user_id].exists
    /\ (include_deleted \/ ~users[user_id].deleted)

update_user_admin(user_id, status) ==
    IF ~get_by_id(user_id, FALSE) THEN Fail("NotFoundError", "User not found")
    ELSE Done([users EXCEPT ![user_id].status = status],
              sessions, issuedSids, BadToken, BadToken, user_id, NoSid, 0)

\* Mutant of delete_user: the soft delete also revokes the user's sessions.
delete_user_revoking_sessions(user_id) ==
    IF ~get_by_id(user_id, FALSE) THEN Fail("NotFoundError", "User not found")
    ELSE Done([users EXCEPT ![user_id].deleted = TRUE],
              [s \in DOMAIN sessions |->
                  IF sessions[s].user_id = user_id /\ ~sessions[s].revoked
                  THEN revoke(sessions[s], user_id, now) ELSE sessions[s]],
              issuedSids, BadToken, BadToken, user_id, NoSid, 0)

delete_user(user_id) ==
    IF ~get_by_id(user_id, FALSE) THEN Fail("NotFoundError", "User not found")
    ELSE Done([users EXCEPT ![user_id].deleted = TRUE],
              sessions, issuedSids, BadToken, BadToken, user_id, NoSid, 0)

restore_user(user_id) ==
    IF ~get_by_id(user_id, TRUE) THEN Fail("NotFoundError", "User not found")
    ELSE IF ~users[user_id].deleted THEN Fail("BadRequestError", "User is not deleted")
    ELSE Done([users EXCEPT ![user_id].deleted = FALSE],
              sessions, issuedSids, BadToken, BadToken, user_id, NoSid, 0)

\* assign_role / remove_role: the user_roles table after the call.
assign_role(user_id, role_id, expires_at) ==
    {ur \in user_roles : ~(ur.user_id = user_id /\ ur.role_id = role_id)}
        \cup {[user_id |-> user_id, role_id |-> role_id, expires_at |-> expires_at]}

remove_role(user_id, role_id) ==
    {ur \in user_roles : ~(ur.user_id = user_id /\ ur.role_id = role_id)}

\* ---------------------------------------------------------- cleanup task
\* delete(Session).where((Session.expires_at < now) | (Session.revoked == True))
cleanup_expired_sessions(t) ==
    LET kept == {s \in DOMAIN sessions :
                    ~(sessions[s].expires_at < t \/ sessions[s].revoked)}
    IN [s \in kept |-> sessions[s]]

\* ------------------------------------------------------------------- RBAC
\* A role is identified with its unique name.
Roles == {"moderator", "user"}
NoRole == "none"

Resources == {"users", "sessions"}
Actions == {"read", "update"}
Scopes == {"global", "own"}

\* The permissions table (unique on resource, action, scope).
Permissions ==
    {[resource |-> "users", action |-> "update", scope |-> "global"],
     [resource |-> "users", action |-> "update", scope |-> "own"],
     [resource |-> "users", action |-> "read", scope |-> "global"]}

\* User.roles: every role joined to the user through a user_roles row.
UserRoles(u) == {ur.role_id : ur \in {x \in user_roles : x.user_id = u}}

\* Role.permissions: every permission joined through a role_permissions row.
RolePermissions(r) == {rp[2] : rp \in {x \in role_permissions : x[1] = r}}

\* Mutant of PermissionChecker: a role also confers the permissions of its
\* parent role.
PermissionCheckerInherited(current_user, resource, action) ==
    \E role \in UserRoles(current_user) :
        \E permission \in RolePermissions(role)
                \cup (IF roles[role].parent_role_id = NoRole THEN {}
                      ELSE RolePermissions(roles[role].parent_role_id)) :
            permission.resource = resource /\ permission.action = action

\* PermissionChecker.__call__: TRUE when current_user is returned, FALSE when
\* AuthorizationError is raised.
PermissionChecker(current_user, resource, action) ==
    \E role \in UserRoles(current_user) :
        \E permission \in RolePermissions(role) :
            permission.resource = resource /\ permission.action = action

\* RoleChecker.__call__
RoleChecker(current_user, required_roles) ==
    LET user_role_names == UserRoles(current_user) IN
    \E role \in required_roles : role \in user_role_names


\* ------------------------------------------- register, request by request
\* POST /auth/register as the database sees it: each request runs
\* AuthService.register in a transaction of its own (get_db), statement by
\* statement, and commits when the handler has returned.
Requests == 1..NumRequests

NoUsername == "none"

Emails == {"a@x.io", "A@x.io", "b@x.io", "c@x.io"}

Usernames == {NoUsername, "bob", "Bob"}

\* str.lower()
lower(str) ==
    CASE str = "A@x.io" -> "a@x.io"
      [] str = "Bob" -> "bob"
      [] OTHER -> str

IdleRequest ==
    [pc |-> "idle", email |-> "a@x.io", username |-> NoUsername,
     taken |-> FALSE, row |-> 0, result |-> "none"]

\* select(User).where(column == value), under READ COMMITTED: the rows that
\* other transactions have committed (a request has no row of its own before
\* its flush).
select_by_email(email) ==
    {i \in DOMAIN user_rows : user_rows[i].committed /\ user_rows[i].email = email}

select_by_username(username) ==
    {i \in DOMAIN user_rows :
        user_rows[i].committed /\ user_rows[i].username = username}

\* Mutant of unique_conflicts: the users table has no unique index.
unique_conflicts_without_index(row) == {}

\* unique=True on users.email and users.username: the rows an INSERT of row
\* collides with (NULL usernames never collide).
unique_conflicts(row) ==
    {i \in DOMAIN user_rows :
        \/ user_rows[i].email = row.email
        \/ (row.username # NoUsername /\ user_rows[i].username = row.username)}

\* The User object register builds.
NewUser(data) ==
    [email |-> lower(data.email),
     username |-> IF data.username # NoUsername THEN lower(data.username)
                  ELSE NoUsername,
     committed |-> FALSE,
     deleted |-> FALSE]

\* A request arrives; taken records whether a committed row already holds its
\* e-mail (compared case-insensitively) or its username.
RegisterStart(p) ==
    /\ requests[p].pc \in {"idle", "done"}
    /\ \E email \in Emails, username \in Usernames :
        requests' = [requests EXCEPT ![p] =
            [pc |-> "check_email", email |-> email, username |-> username,
             taken |-> \E i \in DOMAIN user_rows :
                          /\ user_rows[i].committed
                          /\ \/ lower(user_rows[i].email) = lower(email)
                             \/ (username # NoUsername
                                 /\ user_rows[i].username # NoUsername
                                 /\ lower(user_rows[i].username) = lower(username)),
             row |-> 0, result |-> "none"]]
    /\ UNCHANGED user_rows

\* "Check if email already exists"
RegisterCheckEmail(p) ==
    /\ requests[p].pc = "check_email"
    /\ requests' = [requests EXCEPT ![p] =
          IF select_by_email(lower(requests[p].email)) # {}
          THEN [@ EXCEPT !.pc = "done", !.result = "ConflictError"]
          ELSE [@ EXCEPT !.pc = "check_username"]]
    /\ UNCHANGED user_rows

\* "Check if username already exists"
RegisterCheckUsername(p) ==
    /\ requests[p].pc = "check_username"
    /\ requests' = [requests EXCEPT ![p] =
          IF /\ requests[p].username # NoUsername
             /\ select_by_username(lower(requests[p].username)) # {}
          THEN [@ EXCEPT !.pc = "done", !.result = "ConflictError"]
          ELSE [@ EXCEPT !.pc = "flush"]]
    /\ UNCHANGED user_rows

\* self.db.add(user); await self.db.flush(): the INSERT waits while a row it
\* collides with is uncommitted, fails with IntegrityError (and the request is
\* rolled back) when that row is committed, and else adds the row.
RegisterFlush(p) ==
    LET user == NewUser(requests[p])
        hits == unique_conflicts(user)
    IN
    /\ requests[p].pc = "flush"
    /\ \A i \in hits : user_rows[i].committed
    /\ IF hits # {}
       THEN /\ requests' = [requests EXCEPT ![p] =
                   [@ EXCEPT !.pc = "done", !.result = "IntegrityError"]]
            /\ UNCHANGED user_rows
       ELSE /\ Len(user_rows) < MaxRows
            /\ user_rows' = Append(user_rows, user)
            /\ requests' = [requests EXCEPT ![p] =
                   [@ EXCEPT !.pc = "commit", !.row = Len(user_rows) + 1]]

\* get_db: await session.commit()
RegisterCommit(p) ==
    /\ requests[p].pc = "commit"
    /\ user_rows' = [user_rows EXCEPT ![requests[p].row].committed = TRUE]
    /\ requests' = [requests EXCEPT ![p] = [@ EXCEPT !.pc = "done", !.result = "created"]]

\* ------------------------------------------------ UserService.create_user
\* The administrator's create_user, soft delete and restore on the same
\* table, one request at a time (each committed before the next begins).
get_by_email(email, include_deleted) ==
    {i \in DOMAIN user_rows :
        /\ user_rows[i].committed
        /\ user_rows[i].email = lower(email)
        /\ (include_deleted \/ ~user_rows[i].deleted)}

get_by_username(username, include_deleted) ==
    {i \in DOMAIN user_rows :
        /\ user_rows[i].committed
        /\ user_rows[i].username = lower(username)
        /\ (include_deleted \/ ~user_rows[i].deleted)}

\* The result of create_user: the error raised ("none" on success) and the
\* table as the request leaves it.
create_user(data) ==
    LET user == [NewUser(data) EXCEPT !.committed = TRUE] IN
    IF get_by_email(data.email, FALSE) # {}
    THEN [err |-> "ConflictError", rows |-> user_rows]
    ELSE IF data.username # NoUsername /\ get_by_username(data.username, FALSE) # {}
    THEN [err |-> "ConflictError", rows |-> user_rows]
    ELSE IF unique_conflicts(user) # {}
    THEN [err |-> "IntegrityError", rows |-> user_rows]
    ELSE [err |-> "none", rows |-> Append(user_rows, user)]

\* The claim sets the program's callers hand to the codec, and the codec
\* before anything was issued.
ClaimSets ==
    {SessionClaims(u, s) : u \in Users, s \in SessionIds}
        \cup {[NoClaims EXCEPT !.sub = u, !.purpose = p] :
                 u \in Users, p \in {"email_verification", "password_reset"}}

NoCodec ==
    [issued |-> FALSE, kind |-> "none", data |-> NoClaims, ttl |-> 0, iat |-> NoTime,
     token |-> BadToken, decoded_at |-> NoTime, decoded |-> None]

\* A session request in flight. Its handler has run in a transaction of its
\* own (get_db): read holds the rows as the handler loaded them, pending the
\* same ORM objects as the handler left them; at pc = "commit" the writes are
\* still to be flushed and committed, at pc = "done" the request has ended.
NoTable == [s \in {} |-> NoRow]

IdleCall ==
    [kind |-> "none", pc |-> "idle", sid |-> NoSid,
     read |-> NoTable, pending |-> NoTable,
     read_users |-> NoTable, pending_users |-> NoTable,
     access |-> BadToken, refresh |-> BadToken, err |-> "none", count |-> 0,
     stale |-> FALSE]

\* ---------------------------------------------------------- state machine
NoSessions == [s \in {} |-> NoRow]

\* scripts/seed_db.py: the seeded roles and their permissions.
SeedRoles ==
    [r \in Roles |->
        [priority |-> IF r = "moderator" THEN 50 ELSE 10, parent_role_id |-> NoRole]]

SeedRolePermissions ==
    {<<"moderator", [resource |-> "users", action |-> "read", scope |-> "global"]>>,
     <<"moderator", [resource |-> "users", action |-> "update", scope |-> "global"]>>,
     <<"user", [resource |-> "users", action |-> "update", scope |-> "own"]>>}

Init ==
    /\ now = 0
    /\ users = [u \in Users |-> NoRow]
    /\ sessions = NoSessions
    /\ issuedSids = 0
    /\ user_roles = {}
    /\ roles = SeedRoles
    /\ role_permissions = SeedRolePermissions
    /\ user_rows = <<>>
    /\ requests = [p \in Requests |-> IdleRequest]
    /\ codec = NoCodec
    /\ calls = [p \in Requests |-> IdleCall]

rbac == <<user_roles, roles, role_permissions>>

registrations == <<user_rows, requests>>

\* A request commits what its handler returns; a request that raised was
\* rolled back and r carries the tables unchanged.
Commit(r) ==
    /\ r.issuedSids <= MaxSessions
    /\ users' = r.users
    /\ sessions' = r.sessions
    /\ issuedSids' = r.issuedSids

Tick ==
    /\ now < MaxTime
    /\ now' = now + 1
    /\ UNCHANGED <<users, sessions, issuedSids, rbac, registrations, codec, calls>>

Register ==
    \E e \in Users :
        /\ Commit(register(e))
        /\ UNCHANGED <<now, rbac, registrations, codec, calls>>

Login ==
    \E e \in Users \cup {NoUser}, password_ok \in BOOLEAN :
        /\ Commit(login(e, password_ok, now))
        /\ UNCHANGED <<now, rbac, registrations, codec, calls>>

Refresh ==
    \E token \in Presentable(now) :
        /\ Commit(refresh_token(token, now))
        /\ UNCHANGED <<now, rbac, registrations, codec, calls>>

\* The body's session_id is read only when all_devices is false.
Logout ==
    \E token \in Presentable(now), session_id \in SessionIds \cup {NoSid},
       all_devices \in BOOLEAN :
        /\ all_devices => session_id = NoSid
        /\ Commit(logout_endpoint(token, session_id, all_devices, now))
        /\ UNCHANGED <<now, rbac, registrations, codec, calls>>

VerifyEmail ==
    \E token \in Presentable(now) :
        /\ Commit(verify_email(token, now))
        /\ UNCHANGED <<now, rbac, registrations, codec, calls>>

\* GET /auth/me
GetMe ==
    \E token \in Presentable(now) :
        /\ Commit(get_current_user(token, now))
        /\ UNCHANGED <<now, rbac, registrations, codec, calls>>

UpdateUserAdmin ==
    \E u \in Users, status \in UserStatus :
        /\ Commit(update_user_admin(u, status))
        /\ UNCHANGED <<now, rbac, registrations, codec, calls>>

DeleteUser ==
    \E u \in Users :
        /\ Commit(delete_user(u))
        /\ UNCHANGED <<now, rbac, registrations, codec, calls>>

RestoreUser ==
    \E u \in Users :
        /\ Commit(restore_user(u))
        /\ UNCHANGED <<now, rbac, registrations, codec, calls>>

CleanupExpiredSessions ==
    /\ sessions' = cleanup_expired_sessions(now)
    /\ UNCHANGED <<now, users, issuedSids, rbac, registrations, codec, calls>>

\* The session life cycle: accounts are registered, verified, soft-deleted
\* and restored; sessions are created, refreshed, revoked, expire and are
\* cleaned up.
Next ==
    \/ Tick
    \/ Register
    \/ VerifyEmail
    \/ Login
    \/ Refresh
    \/ Logout
    \/ GetMe
    \/ DeleteUser
    \/ RestoreUser
    \/ CleanupExpiredSessions

Spec == Init /\ [][Next]_vars

\* The account life cycle: every status an administrator can set, at one
\* instant of the clock.
NextAccounts ==
    \/ Register
    \/ VerifyEmail
    \/ UpdateUserAdmin
    \/ DeleteUser
    \/ RestoreUser
    \/ Login
    \/ Refresh
    \/ Logout
    \/ GetMe

SpecAccounts == Init /\ [][NextAccounts]_vars


\* ------------------------------------------------- RBAC state machine
\* The role checks read only the rows of current_user: one principal, an
\* active account, is granted and stripped of roles while the clock runs.
\* The roles and role_permissions tables are written by the seed scripts
\* only, so every configuration of them is an initial state.
Grantees == {u \in Users : \A v \in Users : u <= v}

ActiveRow == [NoRow EXCEPT !.exists = TRUE, !.status = "active", !.email_verified = TRUE]

RoleConfigs ==
    {rc \in [Roles -> [priority : {10, 50}, parent_role_id : Roles \cup {NoRole}]] :
        /\ rc["moderator"].parent_role_id = NoRole
        /\ rc["user"].parent_role_id # "user"}

InitRbac ==
    /\ now = 0
    /\ users = [u \in Users |-> ActiveRow]
    /\ sessions = NoSessions
    /\ issuedSids = 0
    /\ user_roles = {}
    /\ roles \in RoleConfigs
    /\ role_permissions \in SUBSET (Roles \X Permissions)
    /\ user_rows = <<>>
    /\ requests = [p \in Requests |-> IdleRequest]
    /\ codec = NoCodec
    /\ calls = [p \in Requests |-> IdleCall]

\* POST /users/{id}/roles; expires_at is None or one tick ahead.
AssignRole ==
    \E u \in Grantees, r \in Roles, expires_at \in {NoTime, now + 1} :
        /\ get_by_id(u, FALSE)
        /\ user_roles' = assign_role(u, r, expires_at)
        /\ UNCHANGED <<now, users, sessions, issuedSids, roles, role_permissions,
                     registrations, codec, calls>>

RemoveRole ==
    \E u \in Grantees, r \in Roles :
        /\ user_roles' = remove_role(u, r)
        /\ UNCHANGED <<now, users, sessions, issuedSids, roles, role_permissions,
                     registrations, codec, calls>>

\* A request guarded by require_permission / require_role: the guard reads
\* the tables and writes nothing.
CheckPermission ==
    \E u \in Grantees, resource \in Resources, action \in Actions :
        /\ PermissionChecker(u, resource, action) \in BOOLEAN
        /\ UNCHANGED vars

CheckRole ==
    \E u \in Grantees, required_roles \in (SUBSET Roles) \ {{}} :
        /\ RoleChecker(u, required_roles) \in BOOLEAN
        /\ UNCHANGED vars

NextRbac ==
    \/ Tick
    \/ AssignRole
    \/ RemoveRole
    \/ CheckPermission
    \/ CheckRole

SpecRbac == InitRbac /\ [][NextRbac]_vars


\* ------------------------------------------------------------ properties
\* The session a token names, when its session_id claim is the id of a row.
NamesSession(token) == token.claims.sid \in DOMAIN sessions

Accepted(token) == get_current_user(token, now).err = "none"

\* C1: once a session has been revoked, every request that presents an access
\* token carrying its id is rejected by get_current_user; a revoked row stays
\* revoked until the cleanup task deletes it, a deleted row never comes back,
\* and a token naming a deleted row is rejected as well.
C1_RevokedOrGone(s) == s \notin DOMAIN sessions \/ sessions[s].revoked

C1_RevokedRejected ==
    \A token \in Presentable(now) :
        (token.claims.sid \in 1..issuedSids /\ C1_RevokedOrGone(token.claims.sid))
            => ~Accepted(token)

C1_RevokedStays ==
    \A s \in 1..issuedSids :
        C1_RevokedOrGone(s) => (s \notin DOMAIN sessions' \/ sessions'[s].revoked)

C1_RevocationAuthoritative == []C1_RevokedRejected /\ [][C1_RevokedStays]_vars

\* C1 witness: a revoked session whose owner is an active account, and an
\* access token issued for it that still decodes, refused as revoked.
C1_Witness ==
    \E token \in AccessTokens(now) :
        /\ NamesSession(token)
        /\ sessions[token.claims.sid].revoked
        /\ sessions[token.claims.sid].user_id = token.claims.sub
        /\ decode_token(token, now).valid
        /\ LiveUser(token.claims.sub) /\ users[token.claims.sub].status = "active"
        /\ get_current_user(token, now).err = "SessionRevokedError"

\* C2: login with the correct password succeeds only for status active: for
\* every other status it returns no tokens and creates no session row.
C2_OnlyActiveLogsIn ==
    \A e \in Users :
        (LiveUser(e) /\ users[e].status # "active")
            => LET r == login(e, TRUE, now) IN
               r.err # "none" /\ r.sessions = sessions

\* C3: get_current_user returns a user only for a token that names a session
\* row that is not revoked and not expired.
C3_AcceptedHasLiveSession ==
    \A token \in Presentable(now) :
        Accepted(token)
            => NamesSession(token) /\ is_active(sessions[token.claims.sid], now)

\* C4: a logout request with all_devices = false and no session_id revokes
\* the session named in the caller's access token.
C4_DefaultLogoutRevokesCurrent ==
    \A token \in Presentable(now) :
        LET r == logout_endpoint(token, NoSid, FALSE, now) IN
        (r.err = "none" /\ NamesSession(token))
            => r.sessions[token.claims.sid].revoked

\* C5: a refresh whose token hashes to something else than the stored refresh
\* fingerprint of the session it names fails with AuthenticationError and
\* leaves the tables as they were.
C5_StaleRefreshFails ==
    \A token \in Presentable(now) :
        (NamesSession(token)
         /\ sessions[token.claims.sid].refresh_token_hash # hash_token(token))
            => LET r == refresh_token(token, now) IN
               /\ r.err = "AuthenticationError"
               /\ r.sessions = sessions
               /\ r.users = users

\* C5 witness: an active session of an active account and a signed, unexpired
\* refresh token naming it whose hash is not the stored one; the refresh is
\* refused at the fingerprint comparison.
C5_Witness ==
    \E token \in RefreshTokens(now) :
        /\ NamesSession(token)
        /\ is_active(sessions[token.claims.sid], now)
        /\ decode_token(token, now).valid
        /\ sessions[token.claims.sid].user_id = token.claims.sub
        /\ LiveUser(token.claims.sub) /\ users[token.claims.sub].status = "active"
        /\ sessions[token.claims.sid].refresh_token_hash # hash_token(token)
        /\ refresh_token(token, now).detail = "Invalid refresh token"

\* C9: logout with a session_id revokes exactly that session when the caller
\* owns it and it is not yet revoked, and returns 1; otherwise (another
\* user's session, no such row, already revoked) it returns 0 without error
\* and changes no session.
C9_Target(u, s) ==
    s \in DOMAIN sessions /\ sessions[s].user_id = u /\ ~sessions[s].revoked

C9_LogoutBySessionId ==
    \A token \in Presentable(now), s \in SessionIds :
        Accepted(token) =>
            LET u == get_current_user(token, now).user
                r == logout_endpoint(token, s, FALSE, now)
            IN  /\ r.err = "none"
                /\ r.users = users
                /\ DOMAIN r.sessions = DOMAIN sessions
                /\ IF C9_Target(u, s)
                   THEN /\ r.count = 1
                        /\ r.sessions[s].revoked
                        /\ \A o \in DOMAIN sessions \ {s} : r.sessions[o] = sessions[o]
                   ELSE /\ r.count = 0
                        /\ r.sessions = sessions

\* C9 witness: an authenticated caller names the unrevoked session of another
\* user; nothing is revoked and 0 is returned.
C9_Witness ==
    \E token \in AccessTokens(now), s \in DOMAIN sessions :
        /\ Accepted(token)
        /\ NamesSession(token)
        /\ sessions[token.claims.sid].user_id = token.claims.sub
        /\ sessions[s].user_id # token.claims.sub
        /\ is_active(sessions[s], now)
        /\ logout_endpoint(token, s, FALSE, now).count = 0
        /\ logout_endpoint(token, s, FALSE, now).sessions = sessions

\* C10: logout with all_devices = true revokes every unrevoked session of the
\* caller, returns how many it revoked, leaves every other row as it was, and
\* afterwards the caller has no active session.
C10_Mine(u) == {s \in DOMAIN sessions : sessions[s].user_id = u /\ ~sessions[s].revoked}

C10_LogoutAllDevices ==
    \A token \in Presentable(now) :
        Accepted(token) =>
            LET u == get_current_user(token, now).user
                r == logout_endpoint(token, NoSid, TRUE, now)
            IN  /\ r.err = "none"
                /\ r.users = users
                /\ DOMAIN r.sessions = DOMAIN sessions
                /\ r.count = Cardinality(C10_Mine(u))
                /\ \A s \in C10_Mine(u) : r.sessions[s].revoked
                /\ \A s \in DOMAIN sessions \ C10_Mine(u) : r.sessions[s] = sessions[s]
                /\ \A s \in DOMAIN sessions :
                       r.sessions[s].user_id = u => ~is_active(r.sessions[s], now)

\* C10 witness: the caller has two unrevoked sessions, or one beside the
\* active session of another user; logging out everywhere revokes the
\* caller's and only those.
C10_Witness ==
    \E token \in AccessTokens(now) :
        /\ Accepted(token)
        /\ NamesSession(token)
        /\ sessions[token.claims.sid].user_id = token.claims.sub
        /\ \E s \in DOMAIN sessions :
               sessions[s].user_id # token.claims.sub /\ is_active(sessions[s], now)
        /\ logout_endpoint(token, NoSid, TRUE, now).count = 1


\* A role grant whose expires_at lies in the past.
Expired(ur) == ur.expires_at # NoTime /\ ur.expires_at < now

\* A role-permission row of role r for exactly this resource and action.
Grants(r, resource, action) ==
    \E rp \in role_permissions :
        rp[1] = r /\ rp[2].resource = resource /\ rp[2].action = action

\* C6: an expired role grant confers nothing: whoever the permission check
\* admits holds a grant that has not expired of a role with that permission.
C6_ExpiredGrantConfersNothing ==
    \A u \in Grantees, resource \in Resources, action \in Actions :
        PermissionChecker(u, resource, action)
            => \E ur \in user_roles :
                   /\ ur.user_id = u
                   /\ ~Expired(ur)
                   /\ Grants(ur.role_id, resource, action)

\* C7: with grants that have no expiry, the permission check admits the user
\* iff a role assigned directly to the user has a role-permission row for a
\* permission of exactly that resource and action, whatever the permission's
\* scope, the role's priority and the role's parent.
C7_NoExpiry(u) == \A ur \in user_roles : ur.user_id = u => ur.expires_at = NoTime

C7_PermissionIffDirectGrant ==
    \A u \in Grantees, resource \in Resources, action \in Actions :
        C7_NoExpiry(u)
            => (PermissionChecker(u, resource, action)
                <=> \E ur \in user_roles :
                        ur.user_id = u /\ Grants(ur.role_id, resource, action))

\* C7 witness: the user holds, without expiry, only a child role that lacks a
\* permission its parent role has, and is denied; the same user is admitted
\* through a permission of scope "own".
C7_Witness ==
    \E u \in Grantees, ur \in user_roles :
        /\ C7_NoExpiry(u)
        /\ UserRoles(u) = {ur.role_id}
        /\ ur.user_id = u
        /\ roles[ur.role_id].parent_role_id # NoRole
        /\ Grants(roles[ur.role_id].parent_role_id, "users", "read")
        /\ ~PermissionChecker(u, "users", "read")
        /\ RolePermissions(ur.role_id) =
               {[resource |-> "users", action |-> "update", scope |-> "own"]}
        /\ PermissionChecker(u, "users", "update")

\* C8: the role check admits the user iff a grant that has not expired names
\* one of the required roles.
C8_RoleCheckerExcludesExpired ==
    \A u \in Grantees, required_roles \in (SUBSET Roles) \ {{}} :
        RoleChecker(u, required_roles)
            <=> \E ur \in user_roles :
                    ur.user_id = u /\ ~Expired(ur) /\ ur.role_id \in required_roles

\* E-mail verification over time: accounts are registered, verified, given
\* any status by an administrator, soft-deleted and restored while the clock
\* runs and verification tokens age.
NextVerify ==
    \/ Tick
    \/ Register
    \/ VerifyEmail
    \/ UpdateUserAdmin
    \/ DeleteUser
    \/ RestoreUser

SpecVerify == Init /\ [][NextVerify]_vars

\* Concurrent registration: the register requests interleave statement by
\* statement.
others == <<now, users, sessions, issuedSids, rbac, codec, calls>>

NextRegister ==
    \/ \E p \in Requests : RegisterStart(p) /\ UNCHANGED others
    \/ \E p \in Requests : RegisterCheckEmail(p) /\ UNCHANGED others
    \/ \E p \in Requests : RegisterCheckUsername(p) /\ UNCHANGED others
    \/ \E p \in Requests : RegisterFlush(p) /\ UNCHANGED others
    \/ \E p \in Requests : RegisterCommit(p) /\ UNCHANGED others

SpecRegister == Init /\ [][NextRegister]_vars

\* User administration on the users table: create_user, soft delete, restore.
CreateUser ==
    /\ \E email \in Emails, username \in Usernames :
        LET r == create_user([email |-> email, username |-> username]) IN
        /\ Len(r.rows) <= MaxRows
        /\ user_rows' = r.rows
    /\ UNCHANGED <<requests, others>>

SoftDeleteRow ==
    /\ \E i \in DOMAIN user_rows :
        /\ ~user_rows[i].deleted
        /\ user_rows' = [user_rows EXCEPT ![i].deleted = TRUE]
    /\ UNCHANGED <<requests, others>>

RestoreRow ==
    /\ \E i \in DOMAIN user_rows :
        /\ user_rows[i].deleted
        /\ user_rows' = [user_rows EXCEPT ![i].deleted = FALSE]
    /\ UNCHANGED <<requests, others>>

NextUsers ==
    \/ CreateUser
    \/ SoftDeleteRow
    \/ RestoreRow

SpecUsers == Init /\ [][NextUsers]_vars

\* The refresh token that login issued for session s: signed for the owner and
\* the session id at the time the row was created.
IssuedRefreshToken(s) ==
    create_refresh_token(SessionClaims(sessions[s].user_id, s), RefreshTTL,
                         sessions[s].created_at)

\* ------------------------------------------- session requests, interleaved
\* The unit of work flushes, for each object it loaded, an UPDATE of the
\* attributes the handler changed, applied to the row as it is at the flush;
\* an object the handler added is INSERTed.
\* Mutant of flush_row: the UPDATE writes every column of the loaded object.
flush_row_all_columns(row, read_row, pending_row) == pending_row

\* Mutant of flush_row: a row that changed since it was loaded is left alone.
flush_row_unless_changed(row, read_row, pending_row) ==
    IF row # read_row THEN row ELSE pending_row

flush_row(row, read_row, pending_row) ==
    [f \in DOMAIN row |-> IF pending_row[f] # read_row[f] THEN pending_row[f] ELSE row[f]]

flush_sessions(call) ==
    [s \in DOMAIN sessions \cup DOMAIN call.pending |->
        IF s \in DOMAIN call.read THEN flush_row(sessions[s], call.read[s], call.pending[s])
        ELSE IF s \in DOMAIN call.pending THEN call.pending[s]
        ELSE sessions[s]]

flush_users(call) ==
    [u \in Users |-> flush_row(users[u], call.read_users[u], call.pending_users[u])]

\* Whether a row the request loaded has been changed by another transaction
\* since (kept with the finished request for the record).
Stale(call) ==
    \E s \in DOMAIN call.read : s \in DOMAIN sessions /\ sessions[s] # call.read[s]

\* The handler of a request has run and produced r: a failure ends the
\* request at once (nothing was written), a success leaves the writes pending.
\* A session id that uuid4 drew is used up whatever becomes of the request.
Begin(p, kind, r) ==
    /\ calls[p].pc \in {"idle", "done"}
    /\ r.issuedSids <= MaxRaceSessions
    /\ issuedSids' = r.issuedSids
    /\ calls' = [calls EXCEPT ![p] =
          IF r.err # "none"
          THEN [IdleCall EXCEPT !.kind = kind, !.pc = "done", !.err = r.err]
          ELSE [kind |-> kind, pc |-> "commit", sid |-> r.sid,
                read |-> sessions, pending |-> r.sessions,
                read_users |-> users, pending_users |-> r.users,
                access |-> r.access, refresh |-> r.refresh,
                err |-> "none", count |-> r.count, stale |-> FALSE]]
    /\ UNCHANGED <<now, users, sessions, rbac, registrations, codec>>

LoginBegin(p) ==
    \E e \in Grantees, password_ok \in BOOLEAN :
        Begin(p, "login", login(e, password_ok, now))

\* The client presents the refresh token a login issued.
RefreshBegin(p) ==
    \E s \in DOMAIN sessions :
        Begin(p, "refresh", refresh_token(IssuedRefreshToken(s), now))

LogoutBegin(p) ==
    \E token \in AccessTokens(now), session_id \in SessionIds \cup {NoSid},
       all_devices \in BOOLEAN :
        /\ all_devices => session_id = NoSid
        /\ Begin(p, "logout", logout_endpoint(token, session_id, all_devices, now))

\* get_db: await session.commit()
CommitCall(p) ==
    /\ calls[p].pc = "commit"
    /\ sessions' = flush_sessions(calls[p])
    /\ users' = flush_users(calls[p])
    /\ calls' = [calls EXCEPT ![p] =
          [IdleCall EXCEPT !.kind = calls[p].kind, !.pc = "done",
                           !.sid = calls[p].sid, !.count = calls[p].count,
                           !.stale = Stale(calls[p])]]
    /\ UNCHANGED <<now, issuedSids, rbac, registrations, codec>>

\* Mutant of RollbackCall: the statements already flushed stay in the
\* database although the request fails.
RollbackCallKeepingWrites(p) ==
    /\ calls[p].pc = "commit"
    /\ sessions' = flush_sessions(calls[p])
    /\ users' = flush_users(calls[p])
    /\ calls' = [calls EXCEPT ![p] =
          [IdleCall EXCEPT !.kind = calls[p].kind, !.pc = "done",
                           !.err = "SQLAlchemyError"]]
    /\ UNCHANGED <<now, issuedSids, rbac, registrations, codec>>

\* get_db: the commit raises SQLAlchemyError; the transaction is rolled back
\* and the error is re-raised, so the client gets no tokens.
RollbackCall(p) ==
    /\ calls[p].pc = "commit"
    /\ calls' = [calls EXCEPT ![p] =
          [IdleCall EXCEPT !.kind = calls[p].kind, !.pc = "done",
                           !.err = "SQLAlchemyError"]]
    /\ UNCHANGED <<now, users, sessions, issuedSids, rbac, registrations, codec>>

InitRace ==
    /\ now = 0
    /\ users = [u \in Users |-> IF u \in Grantees THEN ActiveRow ELSE NoRow]
    /\ sessions = NoSessions
    /\ issuedSids = 0
    /\ user_roles = {}
    /\ roles = SeedRoles
    /\ role_permissions = SeedRolePermissions
    /\ user_rows = <<>>
    /\ requests = [p \in Requests |-> IdleRequest]
    /\ codec = NoCodec
    /\ calls = [p \in Requests |-> IdleCall]

NextRace ==
    \/ Tick
    \/ \E p \in Requests : LoginBegin(p)
    \/ \E p \in Requests : RefreshBegin(p)
    \/ \E p \in Requests : LogoutBegin(p)
    \/ \E p \in Requests : CommitCall(p)
    \/ \E p \in Requests : RollbackCall(p)

SpecRace == InitRace /\ [][NextRace]_vars

\* Requests one at a time, each in its transaction, any of which may fail at
\* its commit: register, verify_email, login, refresh and logout on a
\* database that starts empty.
Quiet == \A q \in Requests : calls[q].pc # "commit"

RegisterBegin(p) ==
    \E e \in Users : Begin(p, "register", register(e))

VerifyEmailBegin(p) ==
    \E token \in SingleUseTokens(now) : Begin(p, "verify_email", verify_email(token, now))

NextAtomic ==
    \/ Tick
    \/ \E p \in Requests : Quiet /\ RegisterBegin(p)
    \/ \E p \in Requests : Quiet /\ VerifyEmailBegin(p)
    \/ \E p \in Requests : Quiet /\ LoginBegin(p)
    \/ \E p \in Requests : Quiet /\ RefreshBegin(p)
    \/ \E p \in Requests : Quiet /\ LogoutBegin(p)
    \/ \E p \in Requests : CommitCall(p)
    \/ \E p \in Requests : RollbackCall(p)

SpecAtomic == Init /\ [][NextAtomic]_vars

\* ------------------------------------------------- the codec on its own
\* A caller issues a token for a claim set and a TTL, the clock runs, the
\* token may be replaced by a string that was not signed with SECRET_KEY, and
\* it is decoded.
CodecIssue ==
    /\ \E kind \in {"access", "refresh"}, data \in ClaimSets, ttl \in 0..MaxTTL :
        codec' = [issued |-> TRUE, kind |-> kind, data |-> data, ttl |-> ttl, iat |-> now,
                  token |-> IF kind = "access"
                            THEN create_access_token(data, ttl, now)
                            ELSE create_refresh_token(data, ttl, now),
                  decoded_at |-> NoTime, decoded |-> None]
    /\ UNCHANGED <<now, users, sessions, issuedSids, rbac, registrations, calls>>

CodecTamper ==
    /\ codec.issued
    /\ codec.token.signed
    /\ codec' = [codec EXCEPT !.token.signed = FALSE, !.decoded_at = NoTime,
                              !.decoded = None]
    /\ UNCHANGED <<now, users, sessions, issuedSids, rbac, registrations, calls>>

CodecDecode ==
    /\ codec.issued
    /\ codec' = [codec EXCEPT !.decoded_at = now,
                              !.decoded = decode_token(codec.token, now)]
    /\ UNCHANGED <<now, users, sessions, issuedSids, rbac, registrations, calls>>

NextCodec ==
    \/ Tick
    \/ CodecIssue
    \/ CodecTamper
    \/ CodecDecode

SpecCodec == Init /\ [][NextCodec]_vars

\* ------------------------------------------------------------ refresh
Unchanged(r) ==
    /\ r.users = users
    /\ r.sessions = sessions
    /\ r.issuedSids = issuedSids

\* C11: a refresh whose token is signed, unexpired and of type refresh, but
\* names a session that is missing, revoked or expired, fails with an
\* authentication error, returns no token and changes no table; this includes
\* the token whose hash is the session's stored refresh fingerprint.
C11_DeadSession(s) ==
    \/ s \notin DOMAIN sessions
    \/ sessions[s].revoked
    \/ is_expired(sessions[s], now)

C11_DeadSessionRefreshFails ==
    \A token \in RefreshTokens(now) :
        (decode_token(token, now).valid /\ C11_DeadSession(token.claims.sid))
            => LET r == refresh_token(token, now) IN
               /\ r.err = "AuthenticationError"
               /\ r.access = BadToken
               /\ r.refresh = BadToken
               /\ Unchanged(r)

\* C11 witness: a revoked session of an active account, and the refresh token
\* login issued for it, still unexpired and matching the stored fingerprint.
C11_Witness ==
    \E s \in DOMAIN sessions :
        /\ sessions[s].revoked
        /\ LiveUser(sessions[s].user_id)
        /\ users[sessions[s].user_id].status = "active"
        /\ decode_token(IssuedRefreshToken(s), now).valid
        /\ sessions[s].refresh_token_hash = hash_token(IssuedRefreshToken(s))
        /\ refresh_token(IssuedRefreshToken(s), now).err = "AuthenticationError"

\* C12: a successful refresh adds no session row, returns the presented
\* refresh token, and changes nothing but the token_hash (to the hash of the
\* access token it returns) and last_activity of the session it names; and
\* the refresh token login issued is accepted as long as the session is
\* active and its owner is an active account.
C12_RefreshInPlace ==
    \A token \in Presentable(now) :
        LET r == refresh_token(token, now)
            s == token.claims.sid
        IN r.err = "none" =>
            /\ r.refresh = token
            /\ r.users = users
            /\ r.issuedSids = issuedSids
            /\ DOMAIN r.sessions = DOMAIN sessions
            /\ \A x \in DOMAIN sessions : x # s => r.sessions[x] = sessions[x]
            /\ r.sessions[s] = [sessions[s] EXCEPT !.token_hash = hash_token(r.access),
                                                   !.last_activity = now]

C12_TokenStaysUsable ==
    \A s \in DOMAIN sessions :
        (/\ is_active(sessions[s], now)
         /\ LiveUser(sessions[s].user_id)
         /\ users[sessions[s].user_id].status = "active")
            => refresh_token(IssuedRefreshToken(s), now).err = "none"

C12_RefreshMutatesInPlace == C12_RefreshInPlace /\ C12_TokenStaysUsable

\* C12 witness: a session that has already been refreshed at a later time
\* than its creation (its access fingerprint is no longer the login's) and
\* whose login refresh token is accepted once more.
C12_Witness ==
    \E s \in DOMAIN sessions :
        /\ sessions[s].last_activity > sessions[s].created_at
        /\ sessions[s].token_hash #
              hash_token(create_access_token(SessionClaims(sessions[s].user_id, s),
                                             AccessTTL, sessions[s].created_at))
        /\ now > sessions[s].last_activity
        /\ refresh_token(IssuedRefreshToken(s), now).err = "none"

\* C13: a refresh for an active session, with the matching refresh token,
\* whose owner is soft-deleted or has a status other than active, fails with
\* an authentication error and changes no table.
C13_OwnerNotActive(s) ==
    \/ ~LiveUser(sessions[s].user_id)
    \/ users[sessions[s].user_id].status # "active"

C13_RefreshRechecksAccount ==
    \A s \in DOMAIN sessions :
        (/\ is_active(sessions[s], now)
         /\ decode_token(IssuedRefreshToken(s), now).valid
         /\ sessions[s].refresh_token_hash = hash_token(IssuedRefreshToken(s))
         /\ C13_OwnerNotActive(s))
            => LET r == refresh_token(IssuedRefreshToken(s), now) IN
               /\ r.err = "AuthenticationError"
               /\ r.access = BadToken
               /\ Unchanged(r)

\* C13 witness: active sessions with matching tokens whose owners are a
\* soft-deleted account and a suspended one.
C13_Witness ==
    \E s1, s2 \in DOMAIN sessions :
        /\ is_active(sessions[s1], now) /\ is_active(sessions[s2], now)
        /\ sessions[s1].refresh_token_hash = hash_token(IssuedRefreshToken(s1))
        /\ sessions[s2].refresh_token_hash = hash_token(IssuedRefreshToken(s2))
        /\ users[sessions[s1].user_id].deleted
        /\ ~users[sessions[s2].user_id].deleted
        /\ users[sessions[s2].user_id].status = "suspended"

\* ----------------------------------------------------------- register
\* C14: a register request that arrives when a committed row already holds
\* its e-mail (compared case-insensitively) or its username ends with
\* ConflictError and adds no row; and however register requests interleave,
\* no two rows of the users table have the same lower-cased e-mail or the
\* same username.
C14_TakenConflicts ==
    \A p \in Requests :
        (requests[p].taken /\ requests[p].pc = "done")
            => requests[p].result = "ConflictError" /\ requests[p].row = 0

C14_NoDuplicates ==
    \A i, j \in DOMAIN user_rows :
        i # j =>
            /\ lower(user_rows[i].email) # lower(user_rows[j].email)
            /\ \/ user_rows[i].username = NoUsername
               \/ user_rows[i].username # user_rows[j].username

C14_EmailAndUsernameUnique == C14_TakenConflicts /\ C14_NoDuplicates

\* C14 witness: two requests for the same address in different case passed
\* their checks together; one created the row and the INSERT of the other
\* failed on the unique index. A third outcome beside it: a committed row.
C14_Witness ==
    \E p, q \in Requests :
        /\ p # q
        /\ requests[p].email # requests[q].email
        /\ lower(requests[p].email) = lower(requests[q].email)
        /\ requests[p].result = "created"
        /\ requests[q].result = "IntegrityError"
        /\ user_rows[requests[p].row].committed

\* -------------------------------------------------------------- login
\* C15: login with an unknown e-mail, with a wrong password, or for a
\* soft-deleted account fails with one and the same error (same class, same
\* message), creates no session and changes no user row.
C15_GenericLoginFailure ==
    \A e \in Users \cup {NoUser}, password_ok \in BOOLEAN :
        (\/ e = NoUser
         \/ ~users[e].exists
         \/ users[e].deleted
         \/ ~password_ok)
            => LET r == login(e, password_ok, now) IN
               /\ r.err = "AuthenticationError"
               /\ r.detail = "Invalid email or password"
               /\ r.sid = NoSid
               /\ r.access = BadToken
               /\ Unchanged(r)

\* C15 witness: a soft-deleted account beside a locked one, whose wrong
\* password gets the same answer as the unknown e-mail.
C15_Witness ==
    \E u, v \in Users :
        /\ users[u].exists /\ users[u].deleted
        /\ users[v].exists /\ ~users[v].deleted /\ users[v].status = "locked"
        /\ login(v, FALSE, now).detail = login(NoUser, TRUE, now).detail
        /\ login(u, TRUE, now).detail = login(NoUser, TRUE, now).detail

\* C16: a successful login adds exactly one session row, under an id no row
\* had, owned by the user, unrevoked, with expires_at = login time + the
\* refresh-token TTL; the access and the refresh token it returns both carry
\* that id, their hashes are the row's two fingerprints, and the only other
\* change is the user's last_login_at, set to the login time.
C16_LoginCreatesOneSession ==
    \A e \in Users, password_ok \in BOOLEAN :
        LET r == login(e, password_ok, now) IN
        r.err = "none" =>
            /\ r.sid \notin DOMAIN sessions
            /\ DOMAIN r.sessions = DOMAIN sessions \cup {r.sid}
            /\ \A s \in DOMAIN sessions : r.sessions[s] = sessions[s]
            /\ r.sessions[r.sid].user_id = e
            /\ r.sessions[r.sid].revoked = FALSE
            /\ r.sessions[r.sid].expires_at = now + RefreshTTL
            /\ decode_token(r.access, now).claims.type = "access"
            /\ decode_token(r.access, now).claims.sid = r.sid
            /\ decode_token(r.access, now).claims.sub = e
            /\ decode_token(r.refresh, now).claims.type = "refresh"
            /\ decode_token(r.refresh, now).claims.sid = r.sid
            /\ decode_token(r.refresh, now).claims.sub = e
            /\ r.sessions[r.sid].token_hash = hash_token(r.access)
            /\ r.sessions[r.sid].refresh_token_hash = hash_token(r.refresh)
            /\ r.users = [users EXCEPT ![e].last_login_at = now]

\* C16 witness: a second login of the same user, after the clock has moved:
\* two rows of the user with different ids and creation times, the later one
\* created at the user's last_login_at.
C16_Witness ==
    \E s1, s2 \in DOMAIN sessions :
        /\ s1 # s2
        /\ sessions[s1].user_id = sessions[s2].user_id
        /\ sessions[s1].created_at < sessions[s2].created_at
        /\ users[sessions[s2].user_id].last_login_at = sessions[s2].created_at
        /\ sessions[s2].expires_at = sessions[s2].created_at + RefreshTTL

\* ------------------------------------------------------- verify_email
VerificationTokens(t) ==
    {token \in SingleUseTokens(t) :
        /\ token.claims.purpose = "email_verification"
        /\ decode_token(token, t).valid}

\* C17: verify_email with a valid e-mail verification token of an existing
\* user sets email_verified and status = active whatever the status was
\* (locked, suspended and inactive included), and changes nothing else.
C17_VerifyEmailActivates ==
    \A token \in VerificationTokens(now) :
        LET u == token.claims.sub
            r == verify_email(token, now)
        IN users[u].exists =>
            /\ r.err = "none"
            /\ r.users[u].email_verified
            /\ r.users[u].status = "active"
            /\ r.users = [users EXCEPT ![u].email_verified = TRUE, ![u].status = "active"]
            /\ r.sessions = sessions

\* C17 witness: existing accounts that are locked and suspended (one of them
\* with a verified address already), for which a valid token exists.
C17_Witness ==
    \E u, v \in Users :
        /\ users[u].exists /\ users[u].status = "locked" /\ users[u].email_verified
        /\ users[v].exists /\ users[v].status = "suspended"
        /\ \E token \in VerificationTokens(now) : token.claims.sub = u
        /\ \E token \in VerificationTokens(now) : token.claims.sub = v

\* C18: nothing records that a verification token was used: every unexpired
\* e-mail verification token of an existing user is accepted, also when the
\* address is verified already, and the state right after a verify_email
\* request is left as it is by a second request with the same token.
C18_StillAccepted ==
    \A token \in VerificationTokens(now) :
        users[token.claims.sub].exists =>
            /\ verify_email(token, now).err = "none"
            /\ (users[token.claims.sub].email_verified
                /\ users[token.claims.sub].status = "active")
                   => verify_email(token, now).users = users

C18_SecondLikeFirst ==
    \A token \in VerificationTokens(now) :
        (/\ verify_email(token, now).err = "none"
         /\ users' = verify_email(token, now).users
         /\ now' = now)
            => /\ verify_email(token, now)'.err = "none"
               /\ verify_email(token, now)'.users = users'

C18_VerifyEmailIdempotent == []C18_StillAccepted /\ [][C18_SecondLikeFirst]_vars

\* C18 witness: an account verified and active, at a later time than the
\* issue of a token that has not expired, which is accepted and changes
\* nothing.
C18_Witness ==
    \E token \in VerificationTokens(now) :
        /\ token.claims.iat < now
        /\ users[token.claims.sub].exists
        /\ users[token.claims.sub].email_verified
        /\ users[token.claims.sub].status = "active"
        /\ verify_email(token, now).err = "none"
        /\ verify_email(token, now).users = users

\* ---------------------------------------------------------- token kinds
\* A session access token: type access, a session_id claim, no purpose.
SessionAccessToken(token) ==
    /\ token.claims.type = "access"
    /\ token.claims.sid # NoSid
    /\ token.claims.purpose = "none"

\* C19: each consumer accepts only its own kind of token: refresh refuses
\* every token that is not of type refresh, get_current_user refuses every
\* token that is not a session access token (refresh tokens and single-use
\* verification and reset tokens included), verify_email refuses with
\* BadRequestError every token whose purpose is not email_verification; and
\* a refusal changes no table.
C19_TokenKindsDisjoint ==
    \A token \in Presentable(now) :
        /\ token.claims.type # "refresh"
              => refresh_token(token, now).err # "none"
                 /\ Unchanged(refresh_token(token, now))
        /\ ~SessionAccessToken(token)
              => get_current_user(token, now).err # "none"
        /\ token.claims.purpose # "email_verification"
              => verify_email(token, now).err = "BadRequestError"
                 /\ Unchanged(verify_email(token, now))

C21_Held(data) ==
    \E i \in DOMAIN user_rows :
        \/ user_rows[i].email = lower(data.email)
        \/ (data.username # NoUsername /\ user_rows[i].username = lower(data.username))

C21_CreateUserConflicts ==
    \A email \in Emails, username \in Usernames :
        LET data == [email |-> email, username |-> username] IN
        /\ C21_Held(data) => create_user(data).err = "ConflictError"
        /\ create_user(data).err # "IntegrityError"

\* --------------------------------------------------- concurrent requests
\* C22: two refresh requests that present the same valid refresh token for
\* one session can both succeed, each with an access token of its own for
\* that session; whenever one of them commits, the session holds the access
\* fingerprint that request set (the later commit wins), the refresh
\* fingerprint is what it was, and no session row has been added.
C22_CommitOfRefresh(p) ==
    /\ calls[p].kind = "refresh"
    /\ calls[p].pc = "commit"
    /\ calls'[p].pc = "done"
    /\ calls'[p].err = "none"

C22_LastWriteWins ==
    \A p \in Requests :
        C22_CommitOfRefresh(p) =>
            LET s == calls[p].sid IN
            /\ calls[p].access.signed
            /\ calls[p].access.claims.type = "access"
            /\ calls[p].access.claims.sid = s
            /\ calls[p].pending[s].token_hash = hash_token(calls[p].access)
            /\ calls[p].pending[s].token_hash # calls[p].read[s].token_hash
                  => sessions'[s].token_hash = hash_token(calls[p].access)
            /\ sessions'[s].refresh_token_hash = sessions[s].refresh_token_hash
            /\ DOMAIN sessions' = DOMAIN sessions

C23_RevokedStays ==
    \A s \in DOMAIN sessions :
        sessions[s].revoked =>
            /\ s \in DOMAIN sessions'
            /\ sessions'[s].revoked
            /\ ~is_active(sessions'[s], now')

C24_RevokeIdempotent ==
    \A s \in DOMAIN sessions :
        sessions[s].revoked =>
            \A u \in Users :
                /\ logout(u, s, FALSE, now).count = 0
                /\ logout(u, s, FALSE, now).sessions = sessions
                /\ logout(u, NoSid, TRUE, now).sessions[s] = sessions[s]
                /\ logout(u, NoSid, TRUE, now).count = Cardinality(C10_Mine(u))

\* C24 witness: a session revoked at an earlier time, whose owner still has
\* an accepted access token (of another session) to call logout with.
C24_Witness ==
    \E s \in DOMAIN sessions :
        /\ sessions[s].revoked
        /\ sessions[s].revoked_at < now
        /\ \E token \in AccessTokens(now) :
              /\ logout_endpoint(token, s, FALSE, now).err = "none"
              /\ logout_endpoint(token, s, FALSE, now).user = sessions[s].user_id
              /\ logout_endpoint(token, s, FALSE, now).count = 0

\* ------------------------------------------------- the instant of expiry
\* C25: a session is active exactly when it is not revoked and the clock is
\* strictly before expires_at; at the instant now = expires_at it is no
\* longer active, and refresh_token and get_current_user reject every token
\* that names it.
C25_ActiveIffBeforeExpiry ==
    \A s \in DOMAIN sessions :
        /\ is_active(sessions[s], now)
              <=> (~sessions[s].revoked /\ now < sessions[s].expires_at)
        /\ now = sessions[s].expires_at
              => \A token \in Presentable(now) :
                    token.claims.sid = s
                        => /\ refresh_token(token, now).err # "none"
                           /\ get_current_user(token, now).err # "none"


\* ----------------------------------------------------- all or nothing
\* C26: a request of register, login, refresh, logout or verify_email that
\* fails, in its handler or at the commit after its writes were flushed (the
\* session INSERT of a login included), leaves the committed users and
\* sessions tables exactly as they were and returns no token; a login that
\* succeeds returns an access and a refresh token and the session row they
\* were issued for is committed with their two fingerprints.
C26_Ends(p) == calls[p].pc # "done" /\ calls'[p].pc = "done"

C26_Step ==
    \A p \in Requests :
        C26_Ends(p) =>
            /\ calls'[p].err # "none"
                  => /\ users' = users
                     /\ sessions' = sessions
                     /\ calls'[p].access = BadToken
                     /\ calls'[p].refresh = BadToken
            /\ (calls'[p].err = "none" /\ calls[p].kind = "login")
                  => /\ calls[p].access.signed
                     /\ calls[p].refresh.signed
                     /\ calls[p].sid \in DOMAIN sessions'
                     /\ calls[p].sid \notin DOMAIN sessions
                     /\ sessions'[calls[p].sid].token_hash = hash_token(calls[p].access)
                     /\ sessions'[calls[p].sid].refresh_token_hash =
                            hash_token(calls[p].refresh)

C27_Hashed(fingerprint) == fingerprint[2]

\* The token was issued, of the given type, for session s.
C27_IssuedFor(token, type, s) ==
    /\ token.signed
    /\ token.claims.type = type
    /\ token.claims.sid = s
    /\ token.claims.sub = sessions[s].user_id

C28_Earlier(token, s) ==
    /\ token.claims.sid = s
    /\ token.claims.sub = sessions[s].user_id
    /\ token.claims.iat >= sessions[s].created_at
    /\ token.claims.iat < C27_Hashed(sessions[s].token_hash).claims.iat

\* C28: get_current_user does not look at the stored access fingerprint:
\* once a refresh has replaced it, an access token issued earlier for the
\* same session, presented by an owner whose account is active and not
\* deleted, is accepted exactly as long as the token itself has not expired
\* and the session is neither revoked nor expired.
C28_EarlierTokenAccepted ==
    \A token \in AccessTokens(now) :
        \A s \in DOMAIN sessions :
            (/\ C28_Earlier(token, s)
             /\ LiveUser(sessions[s].user_id)
             /\ users[sessions[s].user_id].status = "active")
                => (Accepted(token)
                       <=> /\ ~(token.claims.exp < now)
                           /\ ~sessions[s].revoked
                           /\ ~is_expired(sessions[s], now))

\* C28 witness: an access token issued at login is accepted although the
\* session's fingerprint is by now that of a later token.
C28_Witness ==
    \E token \in AccessTokens(now) :
        \E s \in DOMAIN sessions :
            /\ C28_Earlier(token, s)
            /\ token.claims.iat = sessions[s].created_at
            /\ sessions[s].token_hash # hash_token(token)
            /\ Accepted(token)

\* ------------------------------------------------- soft-deleted accounts
\* While u is soft-deleted no request authenticates as u.
C29_DeletedRejected(u) ==
    /\ \A password_ok \in BOOLEAN : login(u, password_ok, now).err # "none"
    /\ \A token \in Presentable(now) :
          /\ refresh_token(token, now).err = "none"
                => refresh_token(token, now).user # u
          /\ get_current_user(token, now).err = "none"
                => get_current_user(token, now).user # u

\* The session's refresh token, and its current access token while that has
\* not expired, are accepted.
C29_SessionUsable(s) ==
    /\ refresh_token(IssuedRefreshToken(s), now).err = "none"
    /\ ~(C27_Hashed(sessions[s].token_hash).claims.exp < now)
          => Accepted(C27_Hashed(sessions[s].token_hash))

C29_State ==
    /\ \A u \in Users : (users[u].exists /\ users[u].deleted) => C29_DeletedRejected(u)
    /\ \A s \in DOMAIN sessions :
          (/\ LiveUser(sessions[s].user_id)
           /\ users[sessions[s].user_id].status = "active"
           /\ is_active(sessions[s], now))
              => C29_SessionUsable(s)

C29_Step ==
    \A u \in Users :
        (users[u].exists /\ users'[u].exists /\ users[u].deleted # users'[u].deleted)
            => /\ sessions' = sessions
               /\ users' = [users EXCEPT ![u].deleted = ~users[u].deleted]

\* C29: while a user's deleted_at is set, login (even with the right
\* password), refresh and get_current_user all fail for that user; deleting
\* and restoring change nothing but deleted_at, no session is revoked, so
\* once the user is restored the unexpired, unrevoked sessions of the active
\* account and their tokens are accepted again.
C29_SoftDeletedCannotAuthenticate == []C29_State /\ [][C29_Step]_vars

\* C29 witness: a soft-deleted user with an active account status has a
\* session that is neither revoked nor expired.
C29_Witness ==
    \E s \in DOMAIN sessions :
        /\ users[sessions[s].user_id].exists
        /\ users[sessions[s].user_id].deleted
        /\ users[sessions[s].user_id].status = "active"
        /\ is_active(sessions[s], now)
        /\ ~Accepted(C27_Hashed(sessions[s].token_hash))

\* ------------------------------------------- what a wrong password learns
\* What the caller of login gets back.
C30_Outcome(r) ==
    [err |-> r.err, detail |-> r.detail, access |-> r.access, refresh |-> r.refresh,
     user |-> r.user, sid |-> r.sid]

C30_WrongPassword(e) == C30_Outcome(login(e, FALSE, now))

C30_StatusOutcomes ==
    {"Account is locked", "Account is suspended", "User account is inactive"}

C30_State ==
    /\ \A e1, e2 \in Users \cup {NoUser} : C30_WrongPassword(e1) = C30_WrongPassword(e2)
    /\ \A e \in Users \cup {NoUser} :
          /\ C30_WrongPassword(e).err = "AuthenticationError"
          /\ login(e, FALSE, now).users = users
          /\ login(e, FALSE, now).sessions = sessions
    /\ \A e \in Users \cup {NoUser}, password_ok \in BOOLEAN :
          login(e, password_ok, now).detail \in C30_StatusOutcomes
              => password_ok /\ LiveUser(e)

C30_Step ==
    \A e \in Users \cup {NoUser} : C30_WrongPassword(e)' = C30_WrongPassword(e)

\* C30: a login whose password does not match gets one and the same
\* AuthenticationError outcome for every address, whether or not an account
\* exists for it and whatever that account's status or deletion mark is, and
\* the outcome stays the same when a request creates the account, changes its
\* status, deletes or restores it; the locked, suspended and inactive
\* outcomes are only given for a live account after the password matched.
C30_StatusOnlyAfterPassword == []C30_State /\ [][C30_Step]_vars

\* C30 witness: beside an address without an account there is a locked
\* account, whose status the right password discloses and the wrong one does
\* not.
C30_Witness ==
    \E u, v \in Users :
        /\ ~users[u].exists
        /\ LiveUser(v) /\ users[v].status = "locked"
        /\ login(v, TRUE, now).detail = "Account is locked"
        /\ C30_WrongPassword(v) = C30_WrongPassword(u)

====
